---- MODULE Spec2Model ----
(***************************************************************************)
(* Model of the folder watcher of Stanza-WatchDog-v2.py:                   *)
(* RobustFolderWatchHandler (deduplication registry, semaphore, one worker *)
(* thread per accepted creation event) and its stability detector          *)
(* wait_for_stable_file.                                                   *)
(***************************************************************************)
EXTENDS Integers, FiniteSets, Sequences, TLC

\* ------------------------------------------------------------------------
\* Program constants (Stanza-WatchDog-v2.py, lines 10-14)
\* ------------------------------------------------------------------------
STABILITY_THRESHOLD == 10
MAX_WAIT_TIME == 600
INITIAL_CHECK_INTERVAL == 1
MAX_CONCURRENT_PROCESSES == 5
MIN_FILE_AGE == 5

\* ------------------------------------------------------------------------
\* Bounds of the model
\* ------------------------------------------------------------------------
\* Number of files created under the watched folder in the ordinary runs.
NumFiles == 3
\* Number of files by which the largest burst exceeds the concurrency cap.
BurstExcess == 1
\* Number of handlers a folder mapping can create (one per watched folder).
NumHandlers == 2

MaxFiles == MAX_CONCURRENT_PROCESSES + BurstExcess
Paths == 1..MaxFiles
Handlers == 1..NumHandlers
\* handler_of of a path that lies under no watched folder.
Unwatched == 0

\* Position of a worker thread inside process() / run_script():
\*   stabilizing  inside wait_for_stable_file
\*   unstable     wait_for_stable_file returned False, before the discard
\*   waiting      in run_script, blocked at "with self.semaphore"
\*   dispatching  holding a slot, subprocess.run in progress
\*   finishing    slot released, before the discard of the finally clause
\*   crashed      thread terminated by an exception nobody caught
Phases == {"stabilizing", "unstable", "waiting", "dispatching", "finishing", "crashed"}

\* The four ways subprocess.run can end inside run_script.
Outcomes == {"success", "nonzero", "timeout", "unexpected"}

VARIABLES
    observer,           \* the watchdog Observer: "started", "stopped", or "exited"
                        \* (in the service also "none", "created": self.observer)
                        \* once the main thread has returned and the process is gone
    handler_of,         \* path -> the handler scheduled for the folder it lies in
    processing_files,   \* handler -> self.processing_files
    semaphore,          \* handler -> free slots of self.semaphore
    threads,            \* path -> phase -> number of worker threads there
    started,            \* path -> threads started since the path entered the registry
    attempts,           \* path -> subprocess.run calls since the path entered the registry
    returned,           \* path -> what wait_for_stable_file returned to its unit of work
    \* one call of wait_for_stable_file (times in ticks, start_time = 0)
    file_creation_time, \* os.path.getctime(file_path) - start_time
    now,                \* time.time() - start_time
    last_size,
    unchanged_count,
    wait_interval,
    verdict,            \* "polling", or what the call returned: "stable" / "timeout"
    \* what an observer of the polls of that call has counted
    same_size_polls,    \* latest polls in a row that read one and the same size
    equal_observations, \* latest polls in a row that read the size observed before
    size_read,          \* whether a poll of the call has read a size yet
    \* one call of run_script followed statement by statement
    run_pc,             \* where the call stands
    run_result,         \* how subprocess.run ended and what it captured
    run_exc,            \* the exception on its way out of the try block
    run_log,            \* the records the call has passed to logging, in order
    \* one run of the processing command, stanza-automation.py
    pipeline,           \* where it stands, what failed, and its exit code; and, as
                        \* seen from outside: the functions called so far (calls),
                        \* those that returned a success (succeeded), and what the
                        \* latest fetch of the operations list showed (observed)
    \* the Windows service, Stanza-WatchDog-Service.py
    service             \* the thread of SvcDoRun, the thread of SvcStop, self.is_running

\* State of the handlers and their worker threads.
hvars == <<observer, handler_of, processing_files, semaphore, threads, started, attempts, returned>>
\* State of the stability detector.
dvars == <<file_creation_time, now, last_size, unchanged_count, wait_interval, verdict,
           same_size_polls, equal_observations, size_read>>

\* State of the call of run_script.
rvars == <<run_pc, run_result, run_exc, run_log>>

\* State of the other programs of the repository.
ovars == <<pipeline, service>>

vars == <<hvars, dvars, rvars, ovars>>

\* ------------------------------------------------------------------------
\* Helpers over the worker threads
\* ------------------------------------------------------------------------
NoThreads == [ph \in Phases |-> 0]

Count(p, ph) == threads[p][ph]

\* Threads of path p that are executing a unit of work (not terminated).
Active(p) ==
    Count(p, "stabilizing") + Count(p, "unstable") + Count(p, "waiting")
        + Count(p, "dispatching") + Count(p, "finishing")

PathsOf(h) == {p \in Paths : handler_of[p] = h}

\* Threads in phase ph among the paths 1..n that belong to handler h.
RECURSIVE SumOver(_, _, _)
SumOver(n, h, ph) ==
    IF n = 0 THEN 0
    ELSE (IF handler_of[n] = h THEN Count(n, ph) ELSE 0) + SumOver(n - 1, h, ph)

\* Number of external commands running under handler h, and of workers blocked
\* in its acquire.
Running(h) == SumOver(MaxFiles, h, "dispatching")
Waiting(h) == SumOver(MaxFiles, h, "waiting")

\* Number of external commands running in the whole process.
RECURSIVE SumHandlers(_)
SumHandlers(h) == IF h = 0 THEN 0 ELSE Running(h) + SumHandlers(h - 1)
TotalRunning == SumHandlers(NumHandlers)

Spawn(p, ph) == [threads EXCEPT ![p][ph] = @ + 1]
Move(p, from, to) == [threads EXCEPT ![p][from] = @ - 1, ![p][to] = @ + 1]
Exit(p, ph) == [threads EXCEPT ![p][ph] = @ - 1]

\* ------------------------------------------------------------------------
\* Initial states: start_folder_watch(folder_mapping)
\* ------------------------------------------------------------------------
\* A semaphore created with one slot too few.
SemaphoreCapacity_OffByOne == MAX_CONCURRENT_PROCESSES - 1

\* Semaphore(MAX_CONCURRENT_PROCESSES) of __init__.
SemaphoreCapacity == MAX_CONCURRENT_PROCESSES

\* One handler, one registry and one semaphore per folder of the mapping.
HandlerInit ==
    /\ observer = "started"
    /\ processing_files = [h \in Handlers |-> {}]
    /\ semaphore = [h \in Handlers |-> SemaphoreCapacity]
    /\ threads = [p \in Paths |-> NoThreads]
    /\ started = [p \in Paths |-> 0]
    /\ attempts = [p \in Paths |-> 0]
    /\ returned = [p \in Paths |-> "none"]

\* The mapping of __main__: a single watched folder, NumFiles files appear in it.
SingleFolder == [p \in Paths |-> IF p <= NumFiles THEN 1 ELSE Unwatched]

\* The same mapping, with a burst of files larger than the concurrency cap.
SingleFolderBurst == [p \in Paths |-> 1]

\* A mapping with several watched folders: the files are spread over them.
SeveralFolders == [p \in Paths |-> ((p - 1) % NumHandlers) + 1]

\* No call of wait_for_stable_file is followed poll by poll.
DetectorIdle ==
    /\ file_creation_time = 0
    /\ now = 0
    /\ last_size = -1
    /\ unchanged_count = 0
    /\ wait_interval = 0
    /\ verdict = "idle"
    /\ same_size_polls = 0
    /\ equal_observations = 0
    /\ size_read = FALSE

\* No call of run_script is followed statement by statement.
NoResult == [ending |-> "none", returncode |-> 0, stdout |-> "", stderr |-> ""]

RunScriptIdle ==
    /\ run_pc = "idle"
    /\ run_result = NoResult
    /\ run_exc = "none"
    /\ run_log = <<>>

\* No run of the processing command is followed.
PipelineIdle ==
    pipeline = [pc |-> "idle", location_key |-> "unset", failed |-> "none",
                fetches |-> 0, sleeps |-> 0, exit_code |-> 0,
                calls |-> <<>>, succeeded |-> {}, observed |-> "nothing"]

\* The watcher does not run as a service.
ServiceIdle == service = [run_pc |-> "idle", stop_pc |-> "idle", is_running |-> FALSE]

Init ==
    /\ handler_of = SingleFolder
    /\ HandlerInit
    /\ DetectorIdle
    /\ RunScriptIdle
    /\ PipelineIdle
    /\ ServiceIdle

InitBurst ==
    /\ handler_of = SingleFolderBurst
    /\ HandlerInit
    /\ DetectorIdle
    /\ RunScriptIdle
    /\ PipelineIdle
    /\ ServiceIdle

InitMulti ==
    /\ handler_of = SeveralFolders
    /\ HandlerInit
    /\ DetectorIdle
    /\ RunScriptIdle
    /\ PipelineIdle
    /\ ServiceIdle

\* ------------------------------------------------------------------------
\* on_created
\* ------------------------------------------------------------------------
\* The membership test left out: every event is treated as new.
AlreadyProcessing_NoCheck(h, p) == FALSE

\* A path counted as in flight only once its command runs.
AlreadyProcessing_OnlyWhileDispatching(h, p) ==
    p \in processing_files[h] /\ Count(p, "dispatching") > 0

\* "if file_path in self.processing_files" under the lock.
AlreadyProcessing(h, p) == p \in processing_files[h]

\* An on_created that takes a slot of the semaphore before it returns.
OnCreated_WaitsForSlot(p, is_directory) ==
    LET h == handler_of[p] IN
    /\ h \in Handlers
    /\ observer = "started"
    /\ semaphore[h] > 0
    /\ IF is_directory \/ AlreadyProcessing(h, p)
       THEN UNCHANGED vars
       ELSE /\ processing_files' = [processing_files EXCEPT ![h] = @ \cup {p}]
            /\ threads' = Spawn(p, "stabilizing")
            /\ started' = [started EXCEPT ![p] = @ + 1]
            /\ UNCHANGED <<observer, handler_of, semaphore, attempts, returned, dvars, rvars, ovars>>

\* An on_created without the test of event.is_directory.
OnCreated_DirectoriesToo(p, is_directory) ==
    LET h == handler_of[p] IN
    /\ h \in Handlers
    /\ observer = "started"
    /\ IF AlreadyProcessing(h, p)
       THEN UNCHANGED vars
       ELSE /\ processing_files' = [processing_files EXCEPT ![h] = @ \cup {p}]
            /\ threads' = Spawn(p, "stabilizing")
            /\ started' = [started EXCEPT ![p] = @ + 1]
            /\ UNCHANGED <<observer, handler_of, semaphore, attempts, returned, dvars, rvars, ovars>>

\* Lines 103-124: the whole of on_created; the polling and the dispatch are
\* left to the thread it starts.
OnCreated(p, is_directory) ==
    LET h == handler_of[p] IN
    /\ h \in Handlers
    /\ observer = "started"
    /\ IF is_directory
       THEN UNCHANGED vars
       ELSE IF AlreadyProcessing(h, p)
       THEN UNCHANGED vars
       ELSE /\ processing_files' = [processing_files EXCEPT ![h] = @ \cup {p}]
            /\ threads' = Spawn(p, "stabilizing")
            /\ started' = [started EXCEPT ![p] = @ + 1]
            /\ UNCHANGED <<observer, handler_of, semaphore, attempts, returned, dvars, rvars, ovars>>

\* ------------------------------------------------------------------------
\* process(): wait_for_stable_file as seen by the unit of work
\* ------------------------------------------------------------------------
\* os.path.getctime (line 40) raises OSError when the file is already gone; the
\* call is outside the try of wait_for_stable_file and process() has no handler.
GetctimeRaises(p) ==
    /\ Count(p, "stabilizing") > 0
    /\ threads' = Move(p, "stabilizing", "crashed")
    /\ UNCHANGED <<observer, handler_of, processing_files, semaphore, started, attempts, returned, dvars, rvars, ovars>>

\* A process() that goes on to run_script whatever the verdict.
ProcessBranch_IgnoresVerdict(stable) == "waiting"

\* Lines 117-122: "if self.wait_for_stable_file(file_path)" -- run_script on
\* True, the warning and the discard on False.
ProcessBranch(stable) == IF stable THEN "waiting" ELSE "unstable"

\* A stability check that releases the path itself when it gives up, ahead of
\* the release of process().
WaitForStableFile_ReleasesEarly(p, stable) ==
    /\ Count(p, "stabilizing") > 0
    /\ threads' = Move(p, "stabilizing", ProcessBranch(stable))
    /\ returned' = [returned EXCEPT ![p] = IF stable THEN "stable" ELSE "timeout"]
    /\ processing_files' = IF stable THEN processing_files
                         ELSE [processing_files EXCEPT ![handler_of[p]] = @ \ {p}]
    /\ UNCHANGED <<observer, handler_of, semaphore, started, attempts, dvars, rvars, ovars>>

\* wait_for_stable_file returns its verdict.
WaitForStableFile(p, stable) ==
    /\ Count(p, "stabilizing") > 0
    /\ threads' = Move(p, "stabilizing", ProcessBranch(stable))
    /\ returned' = [returned EXCEPT ![p] = IF stable THEN "stable" ELSE "timeout"]
    /\ UNCHANGED <<observer, handler_of, processing_files, semaphore, started, attempts, dvars, rvars, ovars>>

\* The release forgotten: the registry is left as it is.
Discard_Forgotten(h, p) == processing_files

\* A release that empties the registry of the handler.
Discard_ClearsRegistry(h, p) == [processing_files EXCEPT ![h] = {}]

\* Registry release: "with self.lock: self.processing_files.discard(file_path)".
Discard(h, p) == [processing_files EXCEPT ![h] = @ \ {p}]

\* The else branch of process().
FailedToStabilize(p) ==
    /\ Count(p, "unstable") > 0
    /\ threads' = Exit(p, "unstable")
    /\ processing_files' = Discard(handler_of[p], p)
    /\ started' = [started EXCEPT ![p] = 0]
    /\ attempts' = [attempts EXCEPT ![p] = 0]
    /\ returned' = [returned EXCEPT ![p] = "none"]
    /\ UNCHANGED <<observer, handler_of, semaphore, dvars, rvars, ovars>>

\* ------------------------------------------------------------------------
\* run_script
\* ------------------------------------------------------------------------
\* An acquire that never blocks.
SlotFree_NeverBlocks(h) == TRUE

\* Semaphore.acquire: blocks while no slot is free.
SlotFree(h) == semaphore[h] > 0

\* A run_script that discards the path on its way into the with block.
StartDispatch_ReleasesPath(p) ==
    LET h == handler_of[p] IN
    /\ Count(p, "waiting") > 0
    /\ SlotFree(h)
    /\ semaphore' = [semaphore EXCEPT ![h] = @ - 1]
    /\ threads' = Move(p, "waiting", "dispatching")
    /\ attempts' = [attempts EXCEPT ![p] = @ + 1]
    /\ processing_files' = Discard(h, p)
    /\ UNCHANGED <<observer, handler_of, started, returned, dvars, rvars, ovars>>

\* "with self.semaphore:" entered, subprocess.run started.
StartDispatch(p) ==
    LET h == handler_of[p] IN
    /\ Count(p, "waiting") > 0
    /\ SlotFree(h)
    /\ semaphore' = [semaphore EXCEPT ![h] = @ - 1]
    /\ threads' = Move(p, "waiting", "dispatching")
    /\ attempts' = [attempts EXCEPT ![p] = @ + 1]
    /\ UNCHANGED <<observer, handler_of, processing_files, started, returned, dvars, rvars, ovars>>

\* The slot kept when the command times out.
SlotsReleased_LeakOnTimeout(outcome) == IF outcome = "timeout" THEN 0 ELSE 1

\* Slots given back when the with block is left with the given outcome.
SlotsReleased(outcome) == 1

\* A run_script that queues for a slot again when the command has failed.
AfterDispatch_RetryOnFailure(outcome) ==
    IF outcome = "nonzero" THEN "waiting" ELSE "finishing"

\* Lines 93-101: whatever the outcome, the except clauses only log and the
\* finally clause comes next; nothing leads back into the try block.
AfterDispatch(outcome) == "finishing"

\* A run_script whose discard, under the registry lock, is made inside the with
\* block, the slot still held.
EndDispatch_DiscardsInsideWith(p, outcome) ==
    LET h == handler_of[p] IN
    /\ Count(p, "dispatching") > 0
    /\ processing_files' = Discard(h, p)
    /\ semaphore' = [semaphore EXCEPT ![h] = @ + SlotsReleased(outcome)]
    /\ threads' = Move(p, "dispatching", AfterDispatch(outcome))
    /\ UNCHANGED <<observer, handler_of, started, attempts, returned, dvars, rvars, ovars>>

\* subprocess.run ends (returns, or raises CalledProcessError, TimeoutExpired or
\* another exception); the with block is left and the except clause logs.
EndDispatch(p, outcome) ==
    LET h == handler_of[p] IN
    /\ Count(p, "dispatching") > 0
    /\ semaphore' = [semaphore EXCEPT ![h] = @ + SlotsReleased(outcome)]
    /\ threads' = Move(p, "dispatching", AfterDispatch(outcome))
    /\ UNCHANGED <<observer, handler_of, processing_files, started, attempts, returned, dvars, rvars, ovars>>

\* The finally clause of run_script.
Finally(p) ==
    /\ Count(p, "finishing") > 0
    /\ threads' = Exit(p, "finishing")
    /\ processing_files' = Discard(handler_of[p], p)
    /\ started' = [started EXCEPT ![p] = 0]
    /\ attempts' = [attempts EXCEPT ![p] = 0]
    /\ returned' = [returned EXCEPT ![p] = "none"]
    /\ UNCHANGED <<observer, handler_of, semaphore, dvars, rvars, ovars>>

\* ------------------------------------------------------------------------
\* wait_for_stable_file: the stability detector
\* ------------------------------------------------------------------------
\* Clock resolution: 1/32 s makes every value of wait_interval (1, 1.5, 2.25,
\* 3.375, 5.0625, 7.59375, then the cap) a whole number of ticks.
TicksPerSecond == 2 * 2 * 2 * 2 * 2

Seconds(n) == n * TicksPerSecond

\* Sizes os.path.getsize can report.
MaxSize == 1
Sizes == 0..MaxSize

\* Creation times, relative to start_time, in seconds: a file already older
\* than MIN_FILE_AGE when detection starts, and one whose timestamp lies a
\* little ahead of the local clock (too young during the first polls).
OldFileAge == 6
ClockSkew == 2

\* getctime returns whatever stamp the file carries: a stamp further ahead of
\* the local clock than the whole time limit keeps the file too young until
\* after MAX_WAIT_TIME.
FutureCreationTime == Seconds(MAX_WAIT_TIME + ClockSkew)

CreationTimes == {Seconds(0 - OldFileAge), Seconds(ClockSkew), FutureCreationTime}

\* A detector that starts with the size of an empty file as its last size.
DetectorInit_EmptyBaseline ==
    /\ file_creation_time \in CreationTimes
    /\ now = 0
    /\ last_size = 0
    /\ unchanged_count = 0
    /\ wait_interval = Seconds(INITIAL_CHECK_INTERVAL)
    /\ verdict = "polling"
    /\ same_size_polls = 0
    /\ equal_observations = 0
    /\ size_read = FALSE

\* Lines 36-40, getctime having succeeded.
DetectorInit ==
    /\ file_creation_time \in CreationTimes
    /\ now = 0
    /\ last_size = -1
    /\ unchanged_count = 0
    /\ wait_interval = Seconds(INITIAL_CHECK_INTERVAL)
    /\ verdict = "polling"
    /\ same_size_polls = 0
    /\ equal_observations = 0
    /\ size_read = FALSE

InitStab ==
    /\ handler_of = SingleFolder
    /\ HandlerInit
    /\ DetectorInit
    /\ RunScriptIdle
    /\ PipelineIdle
    /\ ServiceIdle

\* The age gate left out.
TooYoung_NoGate(t) == FALSE

\* Line 45: "time.time() - file_creation_time < MIN_FILE_AGE" read at time t.
TooYoung(t) == t - file_creation_time < Seconds(MIN_FILE_AGE)

\* A back-off without the cap of the threshold.
Backoff_Uncapped(w) == (3 * w) \div 2

\* Line 54: min(wait_interval * 1.5, STABILITY_THRESHOLD).
Backoff(w) ==
    IF 3 * w >= 2 * Seconds(STABILITY_THRESHOLD)
    THEN Seconds(STABILITY_THRESHOLD)
    ELSE (3 * w) \div 2

\* Line 63: "time.time() - start_time > MAX_WAIT_TIME" read at time t.
TimedOut(t) == t > Seconds(MAX_WAIT_TIME)

\* A loop that asks for one unchanged observation more than the threshold.
LoopContinues_OneMore == unchanged_count <= STABILITY_THRESHOLD

\* Line 42: "while unchanged_count < STABILITY_THRESHOLD".
LoopContinues == unchanged_count < STABILITY_THRESHOLD

\* The observer's age test, made on the clock and the creation time themselves.
OldEnough == now - file_creation_time >= Seconds(MIN_FILE_AGE)

\* Lines 45-49: the file is too young; sleep and continue (no timeout test).
PollTooYoung ==
    /\ verdict = "polling"
    /\ LoopContinues
    /\ TooYoung(now)
    /\ unchanged_count' = 0
    /\ now' = now + wait_interval
    /\ same_size_polls' = 0
    /\ equal_observations' = 0
    /\ UNCHANGED <<file_creation_time, last_size, wait_interval, verdict, size_read,
                   hvars, rvars, ovars>>

\* An iteration that ends without the sleep of line 67.
TimeoutTestThenSleep_NoSleep ==
    IF TimedOut(now)
    THEN /\ verdict' = "timeout"
         /\ now' = now
    ELSE /\ verdict' = "polling"
         /\ now' = now

\* Lines 63-67: the timeout test, then the sleep of the (updated) interval.
\* The body of an iteration takes no time and a sleep lasts exactly its argument.
TimeoutTestThenSleep ==
    IF TimedOut(now)
    THEN /\ verdict' = "timeout"
         /\ now' = now
    ELSE /\ verdict' = "polling"
         /\ now' = now + wait_interval'

\* Lines 51-58, 63-67: one iteration in which getsize returns size.
PollSize(size) ==
    /\ verdict = "polling"
    /\ LoopContinues
    /\ ~TooYoung(now)
    /\ IF size = last_size
       THEN /\ unchanged_count' = unchanged_count + 1
            /\ wait_interval' = Backoff(wait_interval)
       ELSE /\ unchanged_count' = 0
            /\ wait_interval' = Seconds(INITIAL_CHECK_INTERVAL)
    /\ last_size' = size
    /\ same_size_polls' =
          IF same_size_polls > 0 /\ size = last_size /\ OldEnough
          THEN same_size_polls + 1
          ELSE IF OldEnough THEN 1 ELSE 0
    /\ equal_observations' =
          IF size = last_size /\ OldEnough THEN equal_observations + 1 ELSE 0
    /\ size_read' = TRUE
    /\ TimeoutTestThenSleep
    /\ UNCHANGED <<file_creation_time, hvars, rvars, ovars>>

\* A read error that leaves the streak as it was.
StreakAfterOSError_Kept == unchanged_count

\* Line 61: "unchanged_count = 0" of the except clause.
StreakAfterOSError == 0

\* A read error that also falls back to the initial interval.
PollOSError_ResetsInterval ==
    /\ verdict = "polling"
    /\ LoopContinues
    /\ ~TooYoung(now)
    /\ unchanged_count' = StreakAfterOSError
    /\ same_size_polls' = 0
    /\ equal_observations' = 0
    /\ last_size' = last_size
    /\ size_read' = size_read
    /\ wait_interval' = Seconds(INITIAL_CHECK_INTERVAL)
    /\ TimeoutTestThenSleep
    /\ UNCHANGED <<file_creation_time, hvars, rvars, ovars>>

\* Lines 59-67: one iteration in which getsize raises OSError.
PollOSError ==
    /\ verdict = "polling"
    /\ LoopContinues
    /\ ~TooYoung(now)
    /\ unchanged_count' = StreakAfterOSError
    /\ same_size_polls' = 0
    /\ equal_observations' = 0
    /\ UNCHANGED <<last_size, wait_interval, size_read>>
    /\ TimeoutTestThenSleep
    /\ UNCHANGED <<file_creation_time, hvars, rvars, ovars>>

\* Line 69: the loop condition fails, return True.
ReturnStable ==
    /\ verdict = "polling"
    /\ ~LoopContinues
    /\ verdict' = "stable"
    /\ UNCHANGED <<file_creation_time, now, last_size, unchanged_count, wait_interval,
                   same_size_polls, equal_observations, size_read, hvars, rvars, ovars>>

\* ------------------------------------------------------------------------
\* start_folder_watch: shutdown
\* ------------------------------------------------------------------------
\* Lines 142-144: KeyboardInterrupt in the main thread, observer.stop(); no
\* event is delivered to on_created any more. (SvcStop of the service does the
\* same and clears is_running.)
KeyboardInterrupt ==
    /\ observer = "started"
    /\ observer' = "stopped"
    /\ UNCHANGED <<handler_of, processing_files, semaphore, threads, started, attempts,
                   returned, dvars, rvars, ovars>>

\* Line 124: the workers are started with daemon=True, and nothing joins them:
\* when the interpreter exits they are stopped wherever they are.
ThreadsAtExit == [p \in Paths |-> [threads[p] EXCEPT !["stabilizing"] = 0,
                                                      !["unstable"] = 0,
                                                      !["waiting"] = 0,
                                                      !["dispatching"] = 0,
                                                      !["finishing"] = 0]]

\* Lines 145-146 and the end of __main__: observer.join() returns,
\* start_folder_watch returns, the main thread ends and the process exits.
ProcessExit ==
    /\ observer = "stopped"
    /\ observer' = "exited"
    /\ threads' = ThreadsAtExit
    /\ UNCHANGED <<handler_of, processing_files, semaphore, started, attempts,
                   returned, dvars, rvars, ovars>>

\* ------------------------------------------------------------------------
\* run_script, statement by statement
\* ------------------------------------------------------------------------
\* Exit codes other than 0, and the texts the command can leave on its pipes.
MaxExitCode == 2
\* Fetches of the operations list that find the transcription unfinished.
MaxStatusPolls == 3
ExitCodes == 1..MaxExitCode
StdoutTexts == {"", "transcript"}
StderrTexts == {"", "bad format"}

\* The ways subprocess.run(cmd, check=True, timeout=3600, stdout=PIPE,
\* stderr=PIPE, text=True) can end.
Results ==
    [ending : {"success"}, returncode : {0}, stdout : StdoutTexts, stderr : StderrTexts]
    \cup [ending : {"nonzero"}, returncode : ExitCodes, stdout : StdoutTexts,
          stderr : StderrTexts]
    \cup [ending : {"timeout", "unexpected"}, returncode : {0}, stdout : {""},
          stderr : {""}]

\* What subprocess.run raises: CalledProcessError because of check=True,
\* TimeoutExpired because of timeout=3600, or whatever else went wrong
\* (FileNotFoundError when the interpreter is not found).
Raised(ending) ==
    CASE ending = "success" -> "none"
      [] ending = "nonzero" -> "CalledProcessError"
      [] ending = "timeout" -> "TimeoutExpired"
      [] ending = "unexpected" -> "FileNotFoundError"

\* The call starts in process(), wait_for_stable_file having returned True for
\* a path that on_created has put in the registry.
RunScriptInit ==
    \E p \in 1..NumFiles :
        /\ observer = "started"
        /\ processing_files = [h \in Handlers |-> IF h = SingleFolder[p] THEN {p} ELSE {}]
        /\ semaphore = [h \in Handlers |-> SemaphoreCapacity]
        /\ threads = [q \in Paths |->
                         IF q = p THEN [NoThreads EXCEPT !["waiting"] = 1] ELSE NoThreads]
        /\ started = [q \in Paths |-> IF q = p THEN 1 ELSE 0]
        /\ attempts = [q \in Paths |-> 0]
        /\ returned = [q \in Paths |-> IF q = p THEN "stable" ELSE "none"]
        /\ run_pc = "entry"
        /\ run_result = NoResult
        /\ run_exc = "none"
        /\ run_log = <<>>

InitRun ==
    /\ handler_of = SingleFolder
    /\ RunScriptInit
    /\ DetectorIdle
    /\ PipelineIdle
    /\ ServiceIdle

\* A record passed to logging: severity, message, interpolated values.
LogRecord(level, message, args) == [level |-> level, message |-> message, args |-> args]

\* Lines 74-75: the slot is taken, the start is logged.
EnterSemaphore(p) ==
    LET h == handler_of[p] IN
    /\ run_pc = "entry"
    /\ Count(p, "waiting") > 0
    /\ SlotFree(h)
    /\ semaphore' = [semaphore EXCEPT ![h] = @ - 1]
    /\ threads' = Move(p, "waiting", "dispatching")
    /\ attempts' = [attempts EXCEPT ![p] = @ + 1]
    /\ run_log' = Append(run_log,
                         LogRecord("info", "Starting processing", [file_path |-> p]))
    /\ run_pc' = "subprocess"
    /\ UNCHANGED <<observer, handler_of, processing_files, started, returned, run_result,
                   run_exc, dvars, ovars>>

\* Lines 89-91: what is logged after subprocess.run has returned.
CompletedRecords(p, result) ==
    <<LogRecord("info", "Completed processing", [file_path |-> p])>>
        \o (IF result.stdout # ""
            THEN <<LogRecord("debug", "Script output", [stdout |-> result.stdout])>>
            ELSE <<>>)

\* Lines 80-91: subprocess.run ends; on return the completion is logged, on an
\* exception the rest of the block is skipped. Either way the with block is
\* left and gives its slot back.
SubprocessRun(p, result) ==
    LET h == handler_of[p] IN
    /\ run_pc = "subprocess"
    /\ Count(p, "dispatching") > 0
    /\ run_result' = result
    /\ run_exc' = Raised(result.ending)
    /\ run_log' = IF Raised(result.ending) = "none"
                  THEN run_log \o CompletedRecords(p, result)
                  ELSE run_log
    /\ semaphore' = [semaphore EXCEPT ![h] = @ + SlotsReleased(result.ending)]
    /\ threads' = Move(p, "dispatching", "finishing")
    /\ run_pc' = "except"
    /\ UNCHANGED <<observer, handler_of, processing_files, started, attempts, returned, dvars, ovars>>

\* A try statement without the clause for TimeoutExpired.
ExceptClause_NoTimeoutClause(exc) ==
    IF exc = "CalledProcessError" THEN "Script failed" ELSE "Unexpected error"

\* Lines 93-97: the except clause that matches the exception, by its message.
ExceptClause(exc) ==
    CASE exc = "CalledProcessError" -> "Script failed"
      [] exc = "TimeoutExpired" -> "Script timeout"
      [] OTHER -> "Unexpected error"

\* Lines 94, 96, 98: the record each clause logs.
ErrorRecord(p, clause) ==
    CASE clause = "Script failed" ->
            LogRecord("error", clause, [file_path |-> p, stderr |-> run_result.stderr])
      [] clause = "Script timeout" ->
            LogRecord("error", clause, [file_path |-> p])
      [] clause = "Unexpected error" ->
            LogRecord("error", clause, [file_path |-> p, exception |-> run_exc])

\* Lines 93-98: the exception, if any, is caught and logged.
Except(p) ==
    /\ run_pc = "except"
    /\ Count(p, "finishing") > 0
    /\ run_log' = IF run_exc = "none"
                  THEN run_log
                  ELSE Append(run_log, ErrorRecord(p, ExceptClause(run_exc)))
    /\ run_exc' = "none"
    /\ run_pc' = "finally"
    /\ UNCHANGED <<hvars, run_result, dvars, ovars>>

\* Lines 99-101: the finally clause, then the return to process().
RunScriptFinally(p) ==
    /\ run_pc = "finally"
    /\ Count(p, "finishing") > 0
    /\ threads' = Exit(p, "finishing")
    /\ processing_files' = Discard(handler_of[p], p)
    /\ started' = [started EXCEPT ![p] = 0]
    /\ attempts' = [attempts EXCEPT ![p] = 0]
    /\ returned' = [returned EXCEPT ![p] = "none"]
    /\ run_pc' = IF run_exc = "none" THEN "returned" ELSE "propagated"
    /\ UNCHANGED <<observer, handler_of, semaphore, run_result, run_exc, run_log, dvars, ovars>>

\* ------------------------------------------------------------------------
\* stanza-automation.py, the command that run_script starts for a file
\* ------------------------------------------------------------------------
\* The keys of LOCATION_ALIAS_MAPPING.
LocationKeys == {"pmc_stanza_tst", "stanza_transit"}

\* The calls of main, in the order of its text.
PipelineSteps ==
    <<"get_jwt_token", "create_project", "set_project_status", "set_project_assignee",
      "process_speech_to_text", "check_speech_to_text_status", "export_caption">>

\* The functions that index into the JSON of the response inside their try
\* block: a response without the expected key raises KeyError, which the
\* clause for RequestException does not catch.
IndexesResponse == {"get_jwt_token", "create_project", "check_speech_to_text_status"}

\* How one request of a step can end.
RequestOutcomes(step) ==
    {"ok", "RequestException"} \cup (IF step \in IndexesResponse THEN {"KeyError"} ELSE {})

\* The exit code of the interpreter: 0 when the module body runs to its end,
\* 1 when an exception reaches the top level. No statement of the script
\* sets another one.
ExitCodeOf(ending) == IF ending = "uncaught" THEN 1 ELSE 0

Exited(failed, ending) ==
    [pipeline EXCEPT !.pc = "exited", !.failed = failed, !.exit_code = ExitCodeOf(ending)]

\* The process is started; the module body reaches line 257.
PipelineInit ==
    pipeline = [pc |-> "__main__", location_key |-> "unset", failed |-> "none",
                fetches |-> 0, sleeps |-> 0, exit_code |-> 0,
                calls |-> <<>>, succeeded |-> {}, observed |-> "nothing"]

InitPipeline ==
    /\ handler_of = SingleFolder
    /\ HandlerInit
    /\ DetectorIdle
    /\ RunScriptIdle
    /\ PipelineInit
    /\ ServiceIdle

\* Lines 259-263 without an argument: the usage text, then the end of the module.
Usage ==
    /\ pipeline.pc = "__main__"
    /\ pipeline' = Exited("none", "returned")
    /\ UNCHANGED <<hvars, dvars, rvars, service>>

\* Lines 259-261 and 208-227: main is called with a file path; location_key is
\* the key found in the path, "none" when the path holds neither.
Main(location_key) ==
    /\ pipeline.pc = "__main__"
    /\ pipeline' =
          IF location_key = "none"
          THEN [Exited("location", "returned") EXCEPT !.location_key = "none"]
          ELSE [pipeline EXCEPT !.pc = PipelineSteps[1], !.location_key = location_key]
    /\ UNCHANGED <<hvars, dvars, rvars, service>>

\* A main that goes on after a failed set_project_assignee.
AfterStep_IgnoresAssignee(i, outcome) ==
    CASE outcome = "KeyError" -> Exited(PipelineSteps[i], "uncaught")
      [] outcome = "RequestException" /\ i # 4 -> Exited(PipelineSteps[i], "returned")
      [] OTHER ->
            IF i < Len(PipelineSteps)
            THEN [pipeline EXCEPT !.pc = PipelineSteps[i + 1]]
            ELSE Exited("none", "returned")

\* What main does with the value a step returned: on a falsy value it
\* returns (lines 231-252), otherwise it goes on to the next call, and after
\* the last one to line 254 and the end of the module.
AfterStep(i, outcome) ==
    CASE outcome = "KeyError" -> Exited(PipelineSteps[i], "uncaught")
      [] outcome = "RequestException" -> Exited(PipelineSteps[i], "returned")
      [] outcome = "ok" ->
            IF i < Len(PipelineSteps)
            THEN [pipeline EXCEPT !.pc = PipelineSteps[i + 1]]
            ELSE Exited("none", "returned")

\* The record of the calls, the function called now included.
Called(step) ==
    IF pipeline.calls # <<>> /\ pipeline.calls[Len(pipeline.calls)] = step
    THEN pipeline.calls
    ELSE Append(pipeline.calls, step)

\* One call of a step that sends a single request.
Step(i, outcome) ==
    /\ pipeline.pc = PipelineSteps[i]
    /\ outcome \in RequestOutcomes(PipelineSteps[i])
    /\ pipeline' = [AfterStep(i, outcome) EXCEPT
                       !.calls = Called(PipelineSteps[i]),
                       !.succeeded = IF outcome = "ok" THEN @ \cup {PipelineSteps[i]} ELSE @]
    /\ UNCHANGED <<hvars, dvars, rvars, service>>

GetJwtToken(outcome) == Step(1, outcome)
CreateProject(outcome) == Step(2, outcome)
SetProjectStatus(outcome) == Step(3, outcome)
SetProjectAssignee(outcome) == Step(4, outcome)
ProcessSpeechToText(outcome) == Step(5, outcome)
ExportCaption(outcome) == Step(7, outcome)

\* What one fetch of the operations list can show of the project's
\* LocalSpeechToText operation.
Fetches == {"RequestException", "KeyError", "absent", "running", "complete"}

\* Lines 175-190, one iteration of the loop: the request fails, or an entry
\* lacks a key, or the list holds no matching operation (the next
\* iteration follows at once), or it holds one below 100 (sleep, then the next
\* iteration), or one at 100.
CheckSpeechToTextStatus(fetch) ==
    /\ pipeline.pc = PipelineSteps[6]
    /\ \/ /\ fetch \in {"absent", "running"}
          /\ pipeline.fetches < MaxStatusPolls
          /\ pipeline' = [pipeline EXCEPT
                             !.fetches = @ + 1,
                             !.sleeps = IF fetch = "running" THEN @ + 1 ELSE @,
                             !.calls = Called(PipelineSteps[6]),
                             !.observed = fetch]
       \/ /\ fetch \in {"RequestException", "KeyError"}
          /\ pipeline' = [AfterStep(6, fetch) EXCEPT
                             !.calls = Called(PipelineSteps[6]),
                             !.observed = fetch]
       \/ /\ fetch = "complete"
          /\ pipeline' = [AfterStep(6, "ok") EXCEPT
                             !.calls = Called(PipelineSteps[6]),
                             !.succeeded = @ \cup {PipelineSteps[6]},
                             !.observed = fetch]
    /\ UNCHANGED <<hvars, dvars, rvars, service>>

\* ------------------------------------------------------------------------
\* Stanza-WatchDog-Service.py: FileWatcherService
\* ------------------------------------------------------------------------
\* Lines 135-139 and 149-150: the service is constructed (self.observer = None,
\* self.is_running = False) and SvcDoRun has reported SERVICE_RUNNING; the
\* service control manager may call SvcStop, on its own thread, from now on.
ServiceInit ==
    /\ observer = "none"
    /\ processing_files = [h \in Handlers |-> {}]
    /\ semaphore = [h \in Handlers |-> SemaphoreCapacity]
    /\ threads = [p \in Paths |-> NoThreads]
    /\ started = [p \in Paths |-> 0]
    /\ attempts = [p \in Paths |-> 0]
    /\ returned = [p \in Paths |-> "none"]
    /\ service = [run_pc |-> "start_watching", stop_pc |-> "none", is_running |-> FALSE]

InitService ==
    /\ handler_of = SingleFolder
    /\ ServiceInit
    /\ DetectorIdle
    /\ RunScriptIdle
    /\ PipelineIdle

\* What a service step leaves alone.
ServiceFrame ==
    UNCHANGED <<handler_of, processing_files, semaphore, threads, started, attempts,
                returned, dvars, rvars, pipeline>>

\* Lines 161-168: self.observer = Observer(), the handler scheduled on it.
CreateObserver ==
    /\ service.run_pc = "start_watching"
    /\ observer' = "created"
    /\ service' = [service EXCEPT !.run_pc = "observer.start"]
    /\ ServiceFrame

\* Lines 170-171: self.observer.start(). An observer that was stopped before
\* it was started delivers no event.
StartObserver ==
    /\ service.run_pc = "observer.start"
    /\ observer' = IF observer = "stopped" THEN "stopped" ELSE "started"
    /\ service' = [service EXCEPT !.run_pc = "is_running = True"]
    /\ ServiceFrame

\* Line 172: self.is_running = True.
SetRunning ==
    /\ service.run_pc = "is_running = True"
    /\ service' = [service EXCEPT !.run_pc = "loop", !.is_running = TRUE]
    /\ UNCHANGED observer
    /\ ServiceFrame

\* Lines 174-175: one test of "while self.is_running"; a sleep of a second,
\* or the end of the loop and of start_watching.
RunLoop ==
    /\ service.run_pc = "loop"
    /\ service' = IF service.is_running
                  THEN service
                  ELSE [service EXCEPT !.run_pc = "returned"]
    /\ UNCHANGED observer
    /\ ServiceFrame

\* Lines 141-142: the service control manager calls SvcStop.
SvcStop ==
    /\ service.stop_pc = "none"
    /\ service' = [service EXCEPT !.stop_pc = "if self.observer"]
    /\ UNCHANGED observer
    /\ ServiceFrame

\* Lines 143-144: "if self.observer: self.observer.stop()".
StopObserver ==
    /\ service.stop_pc = "if self.observer"
    /\ observer' = IF observer = "none" THEN "none" ELSE "stopped"
    /\ service' = [service EXCEPT !.stop_pc = "is_running = False"]
    /\ ServiceFrame

\* Lines 145-147: self.is_running = False, the stop event set, SERVICE_STOPPED
\* reported.
ClearRunning ==
    /\ service.stop_pc = "is_running = False"
    /\ service' = [service EXCEPT !.stop_pc = "stopped", !.is_running = FALSE]
    /\ UNCHANGED observer
    /\ ServiceFrame

\* ------------------------------------------------------------------------
\* Specifications
\* ------------------------------------------------------------------------
Next ==
    \/ \E p \in Paths, d \in BOOLEAN : OnCreated(p, d)
    \/ \E p \in Paths : GetctimeRaises(p)
    \/ \E p \in Paths, v \in BOOLEAN : WaitForStableFile(p, v)
    \/ \E p \in Paths : FailedToStabilize(p)
    \/ \E p \in Paths : StartDispatch(p)
    \/ \E p \in Paths, o \in Outcomes : EndDispatch(p, o)
    \/ \E p \in Paths : Finally(p)

NextStab ==
    \/ PollTooYoung
    \/ \E size \in Sizes : PollSize(size)
    \/ PollOSError
    \/ ReturnStable

NextRun ==
    \/ \E p \in Paths : EnterSemaphore(p)
    \/ \E p \in Paths, result \in Results : SubprocessRun(p, result)
    \/ \E p \in Paths : Except(p)
    \/ \E p \in Paths : RunScriptFinally(p)

NextShutdown ==
    \/ \E p \in Paths, d \in BOOLEAN : OnCreated(p, d)
    \/ \E p \in Paths : GetctimeRaises(p)
    \/ \E p \in Paths, v \in BOOLEAN : WaitForStableFile(p, v)
    \/ \E p \in Paths : FailedToStabilize(p)
    \/ \E p \in Paths : StartDispatch(p)
    \/ \E p \in Paths, o \in Outcomes : EndDispatch(p, o)
    \/ \E p \in Paths : Finally(p)
    \/ KeyboardInterrupt
    \/ ProcessExit

NextPipeline ==
    \/ Usage
    \/ \E key \in LocationKeys \cup {"none"} : Main(key)
    \/ \E outcome \in {"ok", "RequestException", "KeyError"} : GetJwtToken(outcome)
    \/ \E outcome \in {"ok", "RequestException", "KeyError"} : CreateProject(outcome)
    \/ \E outcome \in {"ok", "RequestException"} : SetProjectStatus(outcome)
    \/ \E outcome \in {"ok", "RequestException"} : SetProjectAssignee(outcome)
    \/ \E outcome \in {"ok", "RequestException"} : ProcessSpeechToText(outcome)
    \/ \E fetch \in Fetches : CheckSpeechToTextStatus(fetch)
    \/ \E outcome \in {"ok", "RequestException"} : ExportCaption(outcome)

\* The watcher as started by __main__: one watched folder.
Spec == Init /\ [][Next]_vars

\* The same watcher under a burst of more files than the concurrency cap.
SpecBurst == InitBurst /\ [][Next]_vars

\* The watcher started with a folder mapping of several folders.
SpecMulti == InitMulti /\ [][Next]_vars

\* One call of wait_for_stable_file, polled against every file behaviour.
SpecStab == InitStab /\ [][NextStab]_vars

\* The watcher of __main__ until it is shut down and its process has exited.
SpecShutdown == Init /\ [][NextShutdown]_vars

\* What the claims about progress assume of the scheduling: a started thread
\* keeps running (the clock advances, so a stability check returns; a command
\* ends or is stopped by the timeout of subprocess.run; a finally clause is
\* executed), and a thread waiting at "with self.semaphore" gets a slot if
\* slots keep becoming free. Nothing is assumed of the events that arrive,
\* nor of getctime.
Fairness ==
    \A p \in Paths :
        /\ WF_vars(\E v \in BOOLEAN : WaitForStableFile(p, v))
        /\ WF_vars(FailedToStabilize(p))
        /\ SF_vars(StartDispatch(p))
        /\ WF_vars(\E o \in Outcomes : EndDispatch(p, o))
        /\ WF_vars(Finally(p))

\* The watcher under a burst, its threads scheduled fairly.
SpecFair == InitBurst /\ [][Next]_vars /\ Fairness

\* The service: the thread of SvcDoRun, the thread of SvcStop, and the handler
\* with its worker threads.
NextService ==
    \/ CreateObserver
    \/ StartObserver
    \/ SetRunning
    \/ RunLoop
    \/ SvcStop
    \/ StopObserver
    \/ ClearRunning
    \/ \E p \in Paths, d \in BOOLEAN : OnCreated(p, d)
    \/ \E p \in Paths : GetctimeRaises(p)
    \/ \E p \in Paths, v \in BOOLEAN : WaitForStableFile(p, v)
    \/ \E p \in Paths : FailedToStabilize(p)
    \/ \E p \in Paths : StartDispatch(p)
    \/ \E p \in Paths, o \in Outcomes : EndDispatch(p, o)
    \/ \E p \in Paths : Finally(p)

\* Both threads of the service keep running once they have started; when the
\* stop request arrives, if ever, is left open.
ServiceFairness ==
    /\ WF_vars(CreateObserver \/ StartObserver \/ SetRunning \/ RunLoop)
    /\ WF_vars(StopObserver \/ ClearRunning)

\* The watcher run as a Windows service, until and after a stop request.
SpecService == InitService /\ [][NextService]_vars /\ ServiceFairness

\* One call of run_script, against every way the command can end.
SpecRun == InitRun /\ [][NextRun]_vars

\* One run of the processing command, against every way its requests can end.
SpecPipeline == InitPipeline /\ [][NextPipeline]_vars

\* ------------------------------------------------------------------------
\* Properties
\* ------------------------------------------------------------------------
Watched == {p \in Paths : handler_of[p] \in Handlers}

InRegistry(p) == handler_of[p] \in Handlers /\ p \in processing_files[handler_of[p]]

\* C1: at most one unit of work (stability check, wait for a slot, dispatch,
\* or the release that ends it) is executing for a path at any time; so two
\* runs of the external command for one path never overlap.
C1_OneUnitOfWorkPerPath ==
    \A p \in Paths : Active(p) <= 1 /\ Count(p, "dispatching") <= 1

\* A command runs for one path while another path is still being polled.
C1_Witness ==
    \E p, q \in Paths :
        /\ p # q
        /\ Count(p, "dispatching") = 1
        /\ Count(q, "stabilizing") = 1

\* C2 as stated: a unit of work that ends has been the only one started for its
\* path and has made exactly one dispatch attempt.
C2_ExactlyOneDispatchAttempt ==
    [][\A p \in Paths :
          (InRegistry(p) /\ ~InRegistry(p)')
              => (started[p] = 1 /\ attempts[p] = 1)]_vars

\* C2 amended: while a path is in the registry an event for it changes nothing,
\* exactly one unit of work has been started for it and at most one dispatch
\* attempt made; the attempt count is exactly one when the unit of work ends in
\* the finally clause of run_script.
C2_OneUnitAtMostOneDispatch ==
    [][\A p \in Paths :
          /\ (InRegistry(p) /\ OnCreated(p, FALSE)) => UNCHANGED hvars
          /\ InRegistry(p)' => (started'[p] = 1 /\ attempts'[p] <= 1)
          /\ (InRegistry(p) /\ ~InRegistry(p)')
                => /\ started[p] = 1
                   /\ attempts[p] <= 1
                   /\ (Count(p, "finishing") > 0 => attempts[p] = 1)
                   /\ (Count(p, "unstable") > 0 => attempts[p] = 0)]_vars

\* The one unit of work of a path has made its dispatch attempt and is about
\* to release the path.
C2_Witness ==
    \E p \in Paths :
        /\ InRegistry(p)
        /\ started[p] = 1
        /\ attempts[p] = 1
        /\ Count(p, "finishing") = 1

\* C3: the step a unit of work takes after a terminal outcome (the command
\* ended: finishing; the stability check gave up: unstable) removes the path
\* from the registry and ends the unit of work; and whenever a path is not in
\* the registry a creation event for it is accepted: it inserts the path and
\* starts one worker.
C3_ReleasedThenAcceptedAgain ==
    [][\A p \in Paths :
          /\ (Count(p, "finishing") + Count(p, "unstable") > 0
                /\ threads'[p] # threads[p])
                => (~InRegistry(p)' /\ Active(p)' = 0)
          /\ (\E o \in Outcomes : EndDispatch(p, o)) => Count(p, "finishing")' = 1
          /\ (p \in Watched /\ ~InRegistry(p))
                => /\ ENABLED <<OnCreated(p, FALSE)>>_vars
                   /\ OnCreated(p, FALSE)
                        => (InRegistry(p)' /\ Count(p, "stabilizing")' = 1)]_vars

\* One command has ended and one stability check has given up; both units of
\* work are about to release their paths.
C3_Witness ==
    \E p, q \in Paths :
        /\ Count(p, "finishing") = 1
        /\ Count(q, "unstable") = 1

\* C4: every step that ends a unit of work, by whatever exit, leaves its path
\* out of the registry.
C4_EveryExitReleases ==
    [][\A p \in Paths : Active(p)' < Active(p) => ~InRegistry(p)']_vars

\* C5: a path is in the registry if and only if a unit of work for it is
\* executing.
C5_RegistryIffExecuting ==
    \A p \in Paths : InRegistry(p) <=> Active(p) > 0

\* C6: under one handler never more than MAX_CONCURRENT_PROCESSES external
\* commands run at the same time.
C6_AtMostCapRunning ==
    \A h \in Handlers : Running(h) <= MAX_CONCURRENT_PROCESSES

\* The cap is reached while a further worker is ready to dispatch.
C6_Witness ==
    \E h \in Handlers :
        /\ Running(h) = MAX_CONCURRENT_PROCESSES
        /\ Waiting(h) > 0

\* C7: over all watched folders together never more than
\* MAX_CONCURRENT_PROCESSES external commands run at the same time.
C7_GlobalCap == TotalRunning <= MAX_CONCURRENT_PROCESSES

\* C8: free slots plus running dispatches is MAX_CONCURRENT_PROCESSES, and the
\* free-slot count never exceeds it.
C8_SlotAccounting ==
    \A h \in Handlers :
        /\ semaphore[h] + Running(h) = MAX_CONCURRENT_PROCESSES
        /\ semaphore[h] <= MAX_CONCURRENT_PROCESSES

\* One dispatch has left the with block while another still holds its slot.
C8_Witness ==
    \E p, q \in Paths :
        /\ handler_of[p] = handler_of[q]
        /\ Count(p, "finishing") = 1
        /\ Count(q, "dispatching") = 1

\* C9: a worker that is ready to dispatch can enter the with block exactly when
\* fewer than MAX_CONCURRENT_PROCESSES dispatches run under its handler; with
\* the cap reached it stays blocked until a running dispatch ends.
C9_BlockedExactlyWhenFull ==
    \A p \in Paths :
        Count(p, "waiting") > 0
            => (ENABLED StartDispatch(p)
                    <=> Running(handler_of[p]) < MAX_CONCURRENT_PROCESSES)

\* More workers are ready than there are slots: MAX_CONCURRENT_PROCESSES of
\* them dispatch and all the others are blocked.
C9_Witness ==
    \E h \in Handlers :
        /\ Running(h) = MAX_CONCURRENT_PROCESSES
        /\ Waiting(h) = Cardinality(PathsOf(h)) - MAX_CONCURRENT_PROCESSES
        /\ Waiting(h) > 0
        /\ semaphore[h] = 0

\* C10: the stable verdict is never returned while the file's age is below
\* MIN_FILE_AGE, and an iteration started while the file is too young sets the
\* streak to 0, reads no size and returns nothing.
C10_NeverStableWhileTooYoung ==
    [][/\ verdict' = "stable"
            => now' - file_creation_time' >= Seconds(MIN_FILE_AGE)
       /\ (verdict = "polling" /\ now - file_creation_time < Seconds(MIN_FILE_AGE))
            => /\ unchanged_count' = 0
               /\ last_size' = last_size
               /\ wait_interval' = wait_interval
               /\ verdict' = "polling"]_vars

\* A file that was too young during the first polls is declared stable.
C10_Witness ==
    /\ verdict = "stable"
    /\ file_creation_time > 0
    /\ unchanged_count = STABILITY_THRESHOLD

\* The loop of wait_for_stable_file has been left for good: the only step the
\* call can still take is the return of line 69.
AboutToReturnStable ==
    /\ verdict = "polling"
    /\ ENABLED ReturnStable
    /\ ~ENABLED PollTooYoung
    /\ ~ENABLED PollOSError
    /\ \A size \in Sizes : ~ENABLED PollSize(size)

\* C11 as stated: once STABILITY_THRESHOLD polls in a row, all made on a
\* readable and old enough file, have read one and the same size, and the time
\* limit was not exceeded at the last of them, the detector returns True.
C11_StableAfterThresholdPolls ==
    (same_size_polls >= STABILITY_THRESHOLD /\ verdict # "timeout")
        => (verdict = "stable" \/ AboutToReturnStable)

\* C11 amended: the first of the polls only sets the value to compare with, so
\* the detector returns True once STABILITY_THRESHOLD + 1 polls in a row have
\* read one and the same size (STABILITY_THRESHOLD unchanged observations),
\* unless the timeout test of the last of them found the time limit exceeded;
\* and it reports the timeout only when the limit was exceeded.
C11_StableAfterThresholdUnchanged ==
    /\ (same_size_polls >= STABILITY_THRESHOLD + 1 /\ verdict # "timeout")
          => /\ unchanged_count >= STABILITY_THRESHOLD
             /\ (verdict = "stable" \/ AboutToReturnStable)
    /\ verdict = "timeout" => now > Seconds(MAX_WAIT_TIME)

\* The file kept its size from the first poll on and the detector returned True
\* after STABILITY_THRESHOLD + 1 reads.
C11_Witness ==
    /\ verdict = "stable"
    /\ same_size_polls = STABILITY_THRESHOLD + 1
    /\ unchanged_count = STABILITY_THRESHOLD
    /\ file_creation_time < 0

\* C12: the detector returns True only when the file is at least MIN_FILE_AGE
\* old and the latest STABILITY_THRESHOLD polls, at least, each read the size
\* observed before, none of them being a too-young poll, a read error or a
\* changed size; the streak the code keeps is at every moment the number of
\* such polls in a row, so any interruption restarts it from 0.
C12_StableOnlyAfterUnbrokenStreak ==
    /\ unchanged_count = equal_observations
    /\ verdict = "stable"
          => /\ equal_observations >= STABILITY_THRESHOLD
             /\ OldEnough

\* A file that was too young at first and unreadable once after its first
\* read: True is returned after STABILITY_THRESHOLD further reads.
C12_Witness ==
    /\ verdict = "stable"
    /\ file_creation_time > 0
    /\ same_size_polls = STABILITY_THRESHOLD
    /\ equal_observations = STABILITY_THRESHOLD

\* C13: every iteration of the loop that runs when more than MAX_WAIT_TIME has
\* elapsed since the start of the detection ends the call with the timeout
\* verdict, whichever branch it takes (too young, unreadable, changed or
\* unchanged size, the streak reaching the threshold included).
C13_TimeoutInEveryIteration ==
    [][(/\ verdict = "polling"
        /\ unchanged_count < STABILITY_THRESHOLD
        /\ now > Seconds(MAX_WAIT_TIME))
            => verdict' = "timeout"]_vars

\* C14: a unit of work whose stability check returned False has made no
\* dispatch attempt and is neither waiting for a slot nor running the command;
\* its next and last step removes its path from the registry and leaves the
\* semaphore alone. A command is started for a path only by the unit of work
\* to which wait_for_stable_file returned True.
C14_NoDispatchAfterTimeoutVerdict ==
    [][\A p \in Paths :
          /\ returned[p] = "timeout"
                => /\ attempts[p] = 0
                   /\ Count(p, "waiting") + Count(p, "dispatching")
                          + Count(p, "finishing") = 0
                   /\ threads'[p] # threads[p]
                          => /\ ~InRegistry(p)'
                             /\ Active(p)' = 0
                             /\ semaphore' = semaphore
                             /\ attempts'[p] = 0
          /\ (attempts'[p] > attempts[p] \/ Count(p, "dispatching")' > Count(p, "dispatching"))
                => (returned[p] = "stable" /\ returned'[p] = "stable")]_vars

\* One unit of work has been told False and is about to drop its path while
\* another, told True, runs its command.
C14_Witness ==
    \E p, q \in Paths :
        /\ returned[p] = "timeout"
        /\ InRegistry(p)
        /\ returned[q] = "stable"
        /\ Count(q, "dispatching") = 1

\* The records by which run_script reports how the command ended (lines 89,
\* 94, 96, 98), among those the call has logged.
IsOutcomeRecord(r) ==
    r.message \in {"Completed processing", "Script failed", "Script timeout",
                   "Unexpected error"}

OutcomeRecords == SelectSeq(run_log, IsOutcomeRecord)

\* C15: a call of run_script reports exactly one outcome, fixed by how the
\* command ended: "Completed processing" for exit code 0 and for nothing else,
\* "Script failed" with the captured stderr for a non-zero exit, "Script
\* timeout" for the time limit, "Unexpected error" for any other exception; no
\* exception leaves run_script; when the call has returned the path is out of
\* the registry, the slot is back and nothing more can happen for the path.
C15_OneOutcomePerDispatch ==
    /\ run_pc # "propagated"
    /\ Len(OutcomeRecords) <= 1
    /\ run_pc \in {"finally", "returned"}
          => /\ run_exc = "none"
             /\ Len(OutcomeRecords) = 1
             /\ LET r == OutcomeRecords[1] IN
                  /\ run_result.ending = "success"
                        <=> (r.message = "Completed processing" /\ r.level = "info")
                  /\ run_result.ending = "nonzero"
                        <=> /\ r.message = "Script failed"
                            /\ r.level = "error"
                            /\ r.args.stderr = run_result.stderr
                  /\ run_result.ending = "timeout"
                        <=> (r.message = "Script timeout" /\ r.level = "error")
                  /\ run_result.ending = "unexpected"
                        <=> (r.message = "Unexpected error" /\ r.level = "error")
    /\ run_pc = "returned"
          => /\ \A p \in Paths : ~InRegistry(p) /\ Active(p) = 0
             /\ \A h \in Handlers : semaphore[h] = MAX_CONCURRENT_PROCESSES
             /\ ~ENABLED NextRun

\* The command exited with code 1 and "bad format" on stderr, and the call has
\* returned.
C15_Witness ==
    /\ run_pc = "returned"
    /\ run_result.ending = "nonzero"
    /\ run_result.returncode = 1
    /\ run_result.stderr = "bad format"

\* C16: when the command ends with a non-zero exit code, an error record of
\* run_script carries both the captured stderr text and that exit code.
C16_FailureReportHasStderrAndExitCode ==
    (run_pc \in {"finally", "returned"} /\ run_result.ending = "nonzero")
        => \E i \in 1..Len(run_log) :
              /\ run_log[i].level = "error"
              /\ "stderr" \in DOMAIN run_log[i].args
              /\ run_log[i].args.stderr = run_result.stderr
              /\ "returncode" \in DOMAIN run_log[i].args
              /\ run_log[i].args.returncode = run_result.returncode

\* C17: nothing is retried. A stability check starts for a path only when
\* on_created accepts an event for it while it is out of the registry; between
\* two such events one thread is started and the command is started at most
\* once; a unit of work that has its outcome (command ended, or False from the
\* stability check) can only end, and once it has ended only a newly accepted
\* event brings the path back.
C17_NoRetry ==
    [][\A p \in Paths :
          /\ Count(p, "stabilizing")' > Count(p, "stabilizing")
                => (~InRegistry(p) /\ OnCreated(p, FALSE))
          /\ Count(p, "dispatching")' > Count(p, "dispatching")
                => (attempts[p] = 0 /\ attempts'[p] = 1)
          /\ Count(p, "waiting")' > Count(p, "waiting")
                => (attempts[p] = 0 /\ Count(p, "stabilizing")' < Count(p, "stabilizing"))
          /\ started'[p] <= 1
          /\ (Count(p, "finishing") + Count(p, "unstable") > 0 /\ threads'[p] # threads[p])
                => (Active(p)' = 0 /\ started'[p] = 0 /\ attempts'[p] = 0)
          /\ (Active(p) = 0 /\ Active(p)' > 0)
                => (OnCreated(p, FALSE) /\ Count(p, "stabilizing")' = 1)]_vars

\* Every watched path has a unit of work that has its outcome and is about to
\* end: some after their one dispatch attempt, some without any.
C17_Witness ==
    /\ \A p \in Watched :
          /\ Count(p, "finishing") + Count(p, "unstable") = 1
          /\ attempts[p] = Count(p, "finishing")
    /\ \E p, q \in Watched : Count(p, "finishing") = 1 /\ Count(q, "unstable") = 1

\* C18: once the observer is stopped no new unit of work is started, and no
\* step of the shutdown (the stop of the observer, the exit of the process)
\* ends or changes a unit of work that is in flight: each one is left to reach
\* its own outcome.
C18_ShutdownLetsWorkFinish ==
    [][/\ observer # "started"
             => \A p \in Paths : Count(p, "stabilizing")' <= Count(p, "stabilizing")
       /\ observer' # observer
             => \A p \in Paths : threads'[p] = threads[p] /\ Active(p)' = Active(p)]_vars

\* What on_created does besides the insertion of its path and the start of
\* one thread for it: taking or giving back a slot, touching the thread of
\* another path, starting more than one thread, moving a thread on.
OnCreatedDoesMore(p) ==
    \/ semaphore' # semaphore
    \/ \E q \in Paths \ {p} : threads'[q] # threads[q]
    \/ Active(p)' > Active(p) + 1
    \/ Count(p, "stabilizing")' < Count(p, "stabilizing")

\* C19: on_created can run to its end in every state of the workers: it needs
\* no slot and no verdict, and it does at most the insertion of its path and
\* the start of one thread; the two places where a worker holds the registry
\* lock (the discards of process() and of the finally clause) are steps the
\* worker can always take at once.
C19_ListenerNeverBlocks ==
    [](\A p \in Watched :
          /\ ENABLED OnCreated(p, TRUE)
          /\ ENABLED OnCreated(p, FALSE)
          /\ ~ENABLED (OnCreated(p, FALSE) /\ OnCreatedDoesMore(p))
          /\ Count(p, "finishing") > 0 => ENABLED Finally(p)
          /\ Count(p, "unstable") > 0 => ENABLED FailedToStabilize(p))

\* Every slot is taken, a worker is queued on the semaphore, and the path of
\* an event accepted by on_created is being polled.
C19_Witness ==
    \E h \in Handlers :
        /\ semaphore[h] = 0
        /\ Running(h) = MAX_CONCURRENT_PROCESSES
        /\ \E p \in PathsOf(h) : Count(p, "stabilizing") = 1 /\ started[p] = 1

\* C20: a step of the unit of work of a path p, failures included (False from
\* the stability check, an exception in it, a command that fails, times out or
\* cannot be started), leaves every other path q as it is: its place in the
\* registry, its threads and where they stand, what its unit of work has done
\* so far; a release for p removes p and nothing else; and no step of p other
\* than taking its own slot leaves fewer free slots for the others.
C20_PathsAreIsolated ==
    [][\A p \in Paths :
          threads'[p] # threads[p]
              => /\ \A q \in Paths \ {p} :
                       /\ InRegistry(q)' = InRegistry(q)
                       /\ threads'[q] = threads[q]
                       /\ started'[q] = started[q]
                       /\ attempts'[q] = attempts[q]
                       /\ returned'[q] = returned[q]
                 /\ InRegistry(p)' \/ ~InRegistry(p)
                       \/ processing_files'[handler_of[p]]
                              = processing_files[handler_of[p]] \ {p}
                 /\ StartDispatch(p)
                       \/ \A h \in Handlers : semaphore'[h] >= semaphore[h]]_vars

\* The worker of one path has died on an exception while another path is being
\* polled and a third one is about to be released after its command.
C20_Witness ==
    \E p, q, r \in Paths :
        /\ Count(p, "crashed") = 1
        /\ Count(q, "stabilizing") = 1 /\ InRegistry(q)
        /\ Count(r, "finishing") = 1 /\ InRegistry(r)

\* What the acceptance of an event for p amounts to: p enters the registry,
\* one thread is started for it at the stability check, and nothing else
\* moves (no slot, no dispatch attempt, no other path).
Accepted(p) ==
    /\ InRegistry(p)'
    /\ Count(p, "stabilizing")' = Count(p, "stabilizing") + 1
    /\ Active(p)' = Active(p) + 1
    /\ started'[p] = 1
    /\ semaphore' = semaphore
    /\ attempts' = attempts
    /\ \A q \in Paths \ {p} : threads'[q] = threads[q] /\ InRegistry(q)' = InRegistry(q)

\* C21: an event with is_directory set changes nothing at all (registry,
\* threads, slots, dispatch attempts); an event without it, for a path that is
\* not in the registry, is always taken and always starts exactly one unit of
\* work, no property of the file being looked at.
C21_DirectoriesIgnoredFilesAccepted ==
    \A p \in Watched :
        /\ ENABLED OnCreated(p, TRUE)
        /\ ~ENABLED (OnCreated(p, TRUE) /\ vars' # vars)
        /\ ~InRegistry(p)
              => /\ ENABLED OnCreated(p, FALSE)
                 /\ ~ENABLED (OnCreated(p, FALSE) /\ ~Accepted(p))

\* A single path has been accepted and its unit of work has just started;
\* nothing else is in flight.
C21_Witness ==
    \E p \in Watched :
        /\ InRegistry(p) /\ Count(p, "stabilizing") = 1 /\ started[p] = 1
        /\ \A q \in Paths \ {p} : ~InRegistry(q) /\ threads[q] = NoThreads

\* C22: the processing command exits with code 0 only when the whole
\* pipeline processed the file, and with a non-zero code whenever a step
\* failed (location, authentication, project creation, status, assignee,
\* speech-to-text start, status check, export).
C22_ExitCodeTellsSuccess ==
    (pipeline.pc = "exited" /\ pipeline.location_key # "unset")
        => (pipeline.exit_code = 0 <=> pipeline.failed = "none")

\* C23: a successful size read that equals the last size adds one to the
\* streak and sets the interval to min(interval * 1.5, STABILITY_THRESHOLD); a
\* read that differs resets the streak to 0 and the interval to
\* INITIAL_CHECK_INTERVAL; both set the last size to the size read. Hence
\* INITIAL_CHECK_INTERVAL <= interval <= STABILITY_THRESHOLD and
\* 0 <= streak <= STABILITY_THRESHOLD in every reachable state.
C23_PollUpdateRule ==
    /\ [](/\ Seconds(INITIAL_CHECK_INTERVAL) <= wait_interval
          /\ wait_interval <= Seconds(STABILITY_THRESHOLD)
          /\ 0 <= unchanged_count
          /\ unchanged_count <= STABILITY_THRESHOLD)
    /\ [][\A size \in Sizes :
            PollSize(size) =>
                /\ last_size' = size
                /\ size = last_size =>
                      /\ unchanged_count' = unchanged_count + 1
                      /\ 2 * wait_interval' >= 2 * wait_interval
                      /\ \/ 2 * wait_interval' = 3 * wait_interval
                               /\ 3 * wait_interval <= 2 * Seconds(STABILITY_THRESHOLD)
                         \/ wait_interval' = Seconds(STABILITY_THRESHOLD)
                               /\ 3 * wait_interval >= 2 * Seconds(STABILITY_THRESHOLD)
                /\ size # last_size =>
                      /\ unchanged_count' = 0
                      /\ wait_interval' = Seconds(INITIAL_CHECK_INTERVAL)]_vars

\* The streak and the interval have both reached their caps after reads of
\* one size, the size read last being the one kept.
C23_Witness ==
    /\ unchanged_count = STABILITY_THRESHOLD
    /\ wait_interval = Seconds(STABILITY_THRESHOLD)
    /\ equal_observations = STABILITY_THRESHOLD
    /\ last_size \in Sizes

\* C24: a size read that fails with OSError does not abort the check: the
\* streak is reset to 0, the last size and the interval stay as they were,
\* the timeout test is still made in that iteration, and unless it fires the
\* call keeps polling after a sleep of the interval.
C24_OSErrorKeepsPolling ==
    [][PollOSError =>
          /\ unchanged_count' = 0
          /\ last_size' = last_size
          /\ wait_interval' = wait_interval
          /\ IF now > Seconds(MAX_WAIT_TIME)
             THEN verdict' = "timeout"
             ELSE verdict' = "polling" /\ now' = now + wait_interval]_vars

\* A failed read has broken a streak: the call still polls, with the size
\* and the grown interval it had before the failure.
C24_Witness ==
    /\ verdict = "polling"
    /\ unchanged_count = 0
    /\ equal_observations = 0
    /\ last_size \in Sizes
    /\ wait_interval > Seconds(INITIAL_CHECK_INTERVAL)

\* C25: under fair scheduling every accepted event eventually reaches a
\* terminal outcome and its path eventually leaves processing_files, and a
\* worker waiting for a slot of the semaphore eventually dispatches.
C25_AcceptedEventsTerminate ==
    \A p \in Paths :
        /\ InRegistry(p) ~> ~InRegistry(p)
        /\ (Count(p, "waiting") > 0) ~> (Count(p, "dispatching") > 0)

\* C26: once in its loop, wait_for_stable_file terminates. For a file whose
\* creation time is not in the future the call can always take a step while
\* it polls, every iteration either ends the call or moves the clock on by at
\* least INITIAL_CHECK_INTERVAL, and the call never polls later than
\* MAX_WAIT_TIME + STABILITY_THRESHOLD after its start: a verdict is returned
\* after finitely many polls. An iteration that fails to read the size or
\* reads a changed one leaves no streak, so a file that is never readable
\* or changes at every poll ends with the timeout verdict, never with True.
C26_DetectorTerminates ==
    /\ []((verdict = "polling" /\ file_creation_time <= 0)
             => /\ ENABLED NextStab
                /\ now <= Seconds(MAX_WAIT_TIME) + Seconds(STABILITY_THRESHOLD))
    /\ []((verdict = "stable") => equal_observations > 0)
    /\ []((verdict = "polling" /\ equal_observations = 0) => ~ENABLED ReturnStable)
    /\ [][(verdict = "polling" /\ file_creation_time <= 0)
             => \/ verdict' \in {"stable", "timeout"}
                \/ now' >= now + Seconds(INITIAL_CHECK_INTERVAL)]_vars

\* A file that could never be read: the call has ended with the timeout verdict
\* without a single size.
C26_Witness ==
    /\ verdict = "timeout"
    /\ file_creation_time <= 0
    /\ last_size = -1
    /\ now > Seconds(MAX_WAIT_TIME)

\* C27: the first successful read of a call only sets the size to compare
\* with (last_size starts at -1, so not even an empty file counts on its first
\* read). The streak grows only by one at a time, only in a poll that reads a
\* size at an age of at least MIN_FILE_AGE, only when a size was read before
\* and the new one equals the latest size read; True is returned only with a
\* streak of STABILITY_THRESHOLD. A stable verdict thus rests on at least
\* STABILITY_THRESHOLD + 1 successful reads, the last STABILITY_THRESHOLD + 1
\* of them returning one size.
C27_FirstReadIsBaseline ==
    /\ [](verdict = "stable" =>
             /\ unchanged_count = STABILITY_THRESHOLD
             /\ equal_observations = STABILITY_THRESHOLD
             /\ size_read)
    /\ [](~size_read => unchanged_count = 0)
    /\ [][/\ unchanged_count' # unchanged_count =>
                \/ unchanged_count' = 0
                \/ /\ unchanged_count' = unchanged_count + 1
                   /\ size_read
                   /\ now - file_creation_time >= Seconds(MIN_FILE_AGE)
                   /\ last_size' = last_size
                   /\ \E size \in Sizes : PollSize(size) /\ size = last_size
          /\ last_size' # last_size =>
                (\E size \in Sizes : PollSize(size) /\ size = last_size' /\ unchanged_count' = 0)
          /\ (~size_read /\ size_read') =>
                (\E size \in Sizes : PollSize(size) /\ unchanged_count' = 0)]_vars

\* An empty file that never changed: its first read of size 0 set the baseline
\* and True was returned after STABILITY_THRESHOLD + 1 reads in all.
C27_Witness ==
    /\ verdict = "stable"
    /\ last_size = 0
    /\ size_read
    /\ same_size_polls = STABILITY_THRESHOLD + 1
    /\ file_creation_time <= 0
    /\ now < Seconds(MAX_WAIT_TIME)

\* C28: once SvcStop has been called, the run loop of start_watching
\* eventually exits and the observer is stopped, whatever the interleaving of
\* the two threads, a stop that arrives before start_watching has created
\* and started the observer and set is_running included.
C28_StopEndsService ==
    (service.stop_pc \notin {"idle", "none"})
        ~> (service.run_pc = "returned" /\ observer = "stopped")

\* C29: no thread holds the registry lock and a slot of the semaphore at once,
\* and none waits for the semaphore while it holds the lock. The registry is
\* touched under the lock only: the step that removes a path is made by a
\* thread that neither runs a command nor waits for a slot, the step that
\* inserts one by the listener, and neither moves the semaphore or a thread
\* at it; a step that takes or returns a slot leaves the registry alone.
\* Hence no deadlock: whenever a worker waits for a slot, a dispatch is
\* running or a slot is free, and one of the two can take its next step.
C29_LockAndSlotNeverTogether ==
    /\ [][/\ \A p \in Paths :
                /\ (InRegistry(p) /\ ~InRegistry(p)')
                      => /\ Count(p, "dispatching") = 0
                         /\ Count(p, "waiting") = 0
                         /\ Count(p, "finishing") + Count(p, "unstable") > 0
                /\ InRegistry(p)' # InRegistry(p)
                      => /\ semaphore' = semaphore
                         /\ \A q \in Paths :
                               /\ Count(q, "dispatching")' = Count(q, "dispatching")
                               /\ Count(q, "waiting")' = Count(q, "waiting")
           /\ semaphore' # semaphore => processing_files' = processing_files]_vars
    /\ [](\A h \in Handlers :
             Waiting(h) > 0
                => /\ Running(h) > 0 \/ semaphore[h] > 0
                   /\ \E p \in PathsOf(h) :
                         \/ ENABLED StartDispatch(p)
                         \/ ENABLED (\E o \in Outcomes : EndDispatch(p, o)))

\* A worker waits for a slot while other threads hold slots and yet another,
\* its slot returned, is about to take the lock for its discard.
C29_Witness ==
    \E h \in Handlers :
        /\ Waiting(h) > 0
        /\ Running(h) = MAX_CONCURRENT_PROCESSES - 1
        /\ \E p \in PathsOf(h) : Count(p, "finishing") > 0

\* C30: on the dispatch path the slot is released before the path is removed
\* from processing_files. A thread that has left the with block still finds
\* its path in the registry; whenever a path is absent from the registry no
\* command runs for it and no worker of it waits for a slot, and every slot
\* that is taken is held by the dispatch of a path in the registry.
C30_SlotReleasedBeforeRemoval ==
    /\ \A p \in Watched :
          /\ Count(p, "finishing") > 0 => InRegistry(p)
          /\ ~InRegistry(p) => (Count(p, "dispatching") = 0 /\ Count(p, "waiting") = 0)
    /\ \A h \in Handlers :
          SemaphoreCapacity - semaphore[h] =
              Cardinality({p \in PathsOf(h) : InRegistry(p) /\ Count(p, "dispatching") = 1})

\* The command of one path has ended and its slot is free again while the path
\* is still in the registry; another path is out of it, with no thread.
C30_Witness ==
    \E p, q \in Watched :
        /\ handler_of[p] = handler_of[q]
        /\ Count(p, "finishing") = 1
        /\ InRegistry(p)
        /\ semaphore[handler_of[p]] = SemaphoreCapacity
        /\ ~InRegistry(q)
        /\ started[q] = 0

\* C31: a unit of work that reaches a terminal outcome (the command ended, or
\* the stability check gave up) removes its path from processing_files
\* exactly once, as its last action: the step that ends it is the removal, no
\* other step of a worker touches the registry, and the path is in the
\* registry until then. The entry it removes is its own: at the removal it
\* is the only unit of work started for the path since the path was
\* accepted, so the entry of a later unit of work is never removed.
C31_ReleaseOnceAndOwnEntry ==
    [][/\ \A p \in Paths :
            /\ Count(p, "finishing")' + Count(p, "unstable")'
                    < Count(p, "finishing") + Count(p, "unstable")
                  => /\ InRegistry(p)
                     /\ ~InRegistry(p)'
                     /\ Active(p)' = 0
            /\ (InRegistry(p) /\ ~InRegistry(p)')
                  => /\ started[p] = 1
                     /\ Active(p) = 1
                     /\ Count(p, "finishing") + Count(p, "unstable") = 1
                     /\ Count(p, "finishing")' + Count(p, "unstable")' = 0
            /\ (Count(p, "finishing") + Count(p, "unstable") > 0) => InRegistry(p)
       /\ processing_files' # processing_files
            => \E p \in Paths :
                  \/ OnCreated(p, FALSE)
                  \/ Finally(p)
                  \/ FailedToStabilize(p)]_vars

\* A stability check has given up: its unit of work, the only one of its path
\* and without a dispatch attempt, is about to make its one release.
C31_Witness ==
    \E p \in Watched :
        /\ InRegistry(p)
        /\ Count(p, "unstable") = 1
        /\ Active(p) = 1
        /\ returned[p] = "timeout"
        /\ attempts[p] = 0

\* C32: main calls its steps in the order authenticate, create project, set
\* status, set assignee, start speech-to-text, wait for its completion, export
\* caption. A step is called only after every earlier one has succeeded; the
\* first step that fails ends the run and is the last one called; and the
\* export is called only after a fetch of the operations list has shown the
\* LocalSpeechToText operation of the project at progress 100.
C32_StepsInOrderStopAtFirstFailure ==
    LET calls == pipeline.calls
        n == Len(calls)
    IN  /\ n <= Len(PipelineSteps)
        /\ \A i \in 1..n :
              /\ calls[i] = PipelineSteps[i]
              /\ i < n => calls[i] \in pipeline.succeeded
        /\ pipeline.succeeded \subseteq {calls[i] : i \in 1..n}
        /\ pipeline.failed \in {PipelineSteps[i] : i \in 1..Len(PipelineSteps)}
              => /\ pipeline.pc = "exited"
                 /\ n > 0
                 /\ calls[n] = pipeline.failed
                 /\ pipeline.failed \notin pipeline.succeeded
        /\ (pipeline.pc = "exited" /\ pipeline.failed = "none"
                /\ pipeline.location_key # "unset")
              => pipeline.succeeded = {PipelineSteps[i] : i \in 1..Len(PipelineSteps)}
        /\ (n > 0 /\ calls[n] = "export_caption")
              => /\ pipeline.observed = "complete"
                 /\ "check_speech_to_text_status" \in pipeline.succeeded
        /\ pipeline.failed = "location" => calls = <<>>

\* The run was ended by a failed set_project_assignee, the fourth and last
\* step called, the three before it having succeeded.
C32_Witness ==
    /\ pipeline.pc = "exited"
    /\ pipeline.failed = "set_project_assignee"
    /\ Len(pipeline.calls) = 4
    /\ Cardinality(pipeline.succeeded) = 3

\* C33: check_speech_to_text_status returns True only when the list it has
\* just fetched shows the LocalSpeechToText operation of the project at
\* progress 100, and False only when a request has failed; otherwise it keeps
\* polling, and it waits 10 seconds before each new request: there are at
\* least as many sleeps as there are fetches that were followed by another.
C33_StatusPollingWaitsBetweenRequests ==
    /\ "check_speech_to_text_status" \in pipeline.succeeded
          => pipeline.observed = "complete"
    /\ (pipeline.failed = "check_speech_to_text_status" /\ pipeline.exit_code = 0)
          => pipeline.observed = "RequestException"
    /\ pipeline.pc = "check_speech_to_text_status"
          => pipeline.observed \in {"nothing", "absent", "running"}
    /\ pipeline.sleeps >= pipeline.fetches

====
